---- MODULE Spec2Model ----
(***************************************************************************)
(* Model of the decomp repository: the node-linked binary heap of          *)
(* heaptree.py (HeapNode, HeapTree) and the edge index / collapse step of   *)
(* decomp.py (Edge, EdgeSpace, create_edges, skeletonise_step).             *)
(*                                                                         *)
(* Python objects are modelled by integer handles into a store: a HeapNode  *)
(* is an index into the sequence h.nodes, None is 0.  A HeapTree is the     *)
(* record of its attributes together with the store of the nodes it has     *)
(* created and the exception, if any, raised by the call in progress.       *)
(***************************************************************************)
EXTENDS Integers, Sequences, FiniteSets, TLC

\* Bounds of the model.
MaxNodes == 4
MaxVal == 2
MaxFaces == 2
MaxRef == 2

VARIABLES
    heap,               \* a HeapTree under test (heaptree.py)
    given,              \* given[n]: the value the caller holds for handle n
    ret,                \* what the last call returned (a handle, or None)
    op,                 \* the last call made: <<name, node(s) it was given or None>>
    vertices,           \* EdgeSpace.vertices
    faces,              \* the face list handed to create_edges
    edge_heap,          \* create_edges' HeapTree of Edge values
    edge_map,           \* create_edges' defaultdict(dict): vertex -> vertex -> handle
    removed_edgenodes,  \* the list skeletonise_step appends popped nodes to
    pc,                 \* position of the decomp pipeline and its last exception
    lines               \* the lines of the file read_model reads, each as its words

hvars == <<heap, given, ret, op>>
dvars == <<vertices, faces, edge_heap, edge_map, removed_edgenodes, pc, lines>>
vars == <<heap, given, ret, op,
          vertices, faces, edge_heap, edge_map, removed_edgenodes, pc, lines>>

None == 0

(***************************************************************************)
(* heaptree.py                                                             *)
(***************************************************************************)

\* HeapNode.__init__
HeapNode(value) ==
    [value |-> value, left |-> None, right |-> None, parent |-> None]

\* Comparators that can be injected as HeapTree.cmp.  operator.le is the
\* default; lt, ge, gt are the other orderings of the operator module.
le(x, y) == x <= y
lt(x, y) == x < y
ge(x, y) == x >= y
gt(x, y) == x > y

\* Edge.cmp_shortest_edge / Edge.cmp_longest_edge
cmp_shortest_edge(self, other) == self.length < other.length
cmp_longest_edge(self, other) == self.length > other.length

\* self.cmp(x, y)
cmp(h, x, y) ==
    CASE h.cmp = "le" -> le(x, y)
      [] h.cmp = "lt" -> lt(x, y)
      [] h.cmp = "ge" -> ge(x, y)
      [] h.cmp = "gt" -> gt(x, y)
      [] h.cmp = "cmp_shortest_edge" -> cmp_shortest_edge(x, y)
      [] h.cmp = "cmp_longest_edge" -> cmp_longest_edge(x, y)

\* HeapTree.__init__
HeapTree(c) ==
    [root |-> None, _size |-> 0, cmp |-> c, nodes |-> <<>>, err |-> "ok"]

\* HeapTree.__len__
len(h) == h._size

\* An exception leaves the call: the state reached so far stays.
raise(h, e) == [h EXCEPT !.err = e]

\* HeapNode._swapchild(other, hand), on the nodes of the store of h.  A
\* HeapNode defines neither __nonzero__ nor __len__, so `if child:` tests
\* that the child is not None.
_swapchild(h, self, other, hand) ==
    LET otherchild == h.nodes[other][hand]
        selfchild == h.nodes[self][hand]
        h1 == [h EXCEPT !.nodes[other][hand] = selfchild]
        h2 == [h1 EXCEPT !.nodes[self][hand] = otherchild]
        h3 == IF otherchild # None
              THEN [h2 EXCEPT !.nodes[otherchild].parent = self] ELSE h2
    IN IF selfchild # None
       THEN [h3 EXCEPT !.nodes[selfchild].parent = other] ELSE h3

\* HeapNode._getparenthand: "left", "right", "None" for the None it returns
\* when self has no parent, or "NameError": the else of the for loop names
\* StandardException, which no module binds, so the raise statement
\* raises NameError.
_getparenthand(h, self) ==
    LET parent == h.nodes[self].parent
    IN IF parent = None THEN "None"
       ELSE IF h.nodes[parent].left = self THEN "left"
       ELSE IF h.nodes[parent].right = self THEN "right"
       ELSE "NameError"

\* HeapNode._changeparentnode(other), with hand the outcome of
\* self._getparenthand()
changeparentnode_hand(h, self, other, hand) ==
    IF hand = "NameError" THEN raise(h, "NameError")
    ELSE IF hand = "None" THEN h
    ELSE [h EXCEPT !.nodes[h.nodes[self].parent][hand] = other]

\* HeapNode._changeparentnode(other)
_changeparentnode(h, self, other) ==
    IF h.err # "ok" THEN h
    ELSE changeparentnode_hand(h, self, other, _getparenthand(h, self))

\* HeapNode._swapparent(other)
_swapparent(h, self, other) ==
    LET selfparent == h.nodes[self].parent
        otherparent == h.nodes[other].parent
        h1 == [h EXCEPT !.nodes[self].parent = otherparent,
                        !.nodes[other].parent = selfparent]
    IN _changeparentnode(_changeparentnode(h1, self, other), other, self)

\* HeapNode.swap(other)
swap(h, self, other) ==
    _swapparent(_swapchild(_swapchild(h, self, other, "left"),
                           self, other, "right"),
                self, other)

\* bin(n)[2:], most significant bit first
RECURSIVE bin(_)
bin(n) == IF n < 2 THEN <<n>> ELSE Append(bin(n \div 2), n % 2)

\* The loop of __getitem__: follow the bits of the path from node.
RECURSIVE walk(_, _, _)
walk(h, node, path) ==
    IF path = <<>> THEN node
    ELSE IF node = None THEN None
    ELSE walk(h,
              IF Head(path) = 0 THEN h.nodes[node].left ELSE h.nodes[node].right,
              Tail(path))

\* HeapTree.__getitem__: the node at the level-order index; None stands for
\* the IndexError raised when no node is there.
__getitem__(h, index) == walk(h, h.root, Tail(bin(index + 1)))

\* _swapnodewithparent, lines 176-189: node takes parent's place under the
\* grandparent (or as the root).
swap_attach(h, node, parent) ==
    IF node = h.root THEN raise(h, "AssertionError")
    ELSE IF parent = h.root
    THEN [h EXCEPT !.root = node, !.nodes[node].parent = None]
    ELSE IF parent = None THEN raise(h, "AttributeError")
    ELSE LET grandparent == h.nodes[parent].parent
             g == [h EXCEPT !.nodes[node].parent = grandparent]
         IN IF grandparent = None THEN raise(g, "AttributeError")
            ELSE IF g.nodes[grandparent].left = parent
            THEN [g EXCEPT !.nodes[grandparent].left = node]
            ELSE IF g.nodes[grandparent].right = parent
            THEN [g EXCEPT !.nodes[grandparent].right = node]
            ELSE raise(g, "AssertionError")

\* _swapnodewithparent, lines 194-207: parent becomes the child of node on
\* the side node was on, and parent's other child becomes node's.
swap_rotate(h, node, parent) ==
    IF h.err # "ok" THEN h
    ELSE LET p == [h EXCEPT !.nodes[parent].parent = node]
         IN IF p.nodes[parent].left = node
            THEN LET q == [p EXCEPT !.nodes[node].left = parent,
                                    !.nodes[node].right = p.nodes[parent].right]
                     c == q.nodes[node].right
                 IN IF c = None THEN q
                    ELSE IF q.nodes[c].parent # parent
                    THEN raise(q, "AssertionError")
                    ELSE [q EXCEPT !.nodes[c].parent = node]
            ELSE IF p.nodes[parent].right = node
            THEN LET q == [p EXCEPT !.nodes[node].right = parent,
                                    !.nodes[node].left = p.nodes[parent].left]
                     c == q.nodes[node].left
                 IN IF c = None THEN q
                    ELSE IF q.nodes[c].parent # parent
                    THEN raise(q, "AssertionError")
                    ELSE [q EXCEPT !.nodes[c].parent = node]
            ELSE raise(p, "AssertionError")

\* _swapnodewithparent, lines 209-216: node's old children (left, right)
\* become parent's children.
swap_children(h, node, parent, left, right) ==
    IF h.err # "ok" THEN h
    ELSE LET q == [h EXCEPT !.nodes[parent].left = left]
             h1 == IF left = None THEN q
                   ELSE IF q.nodes[left].parent # node
                   THEN raise(q, "AssertionError")
                   ELSE [q EXCEPT !.nodes[left].parent = parent]
         IN IF h1.err # "ok" THEN h1
            ELSE LET r == [h1 EXCEPT !.nodes[parent].right = right]
                 IN IF right = None THEN r
                    ELSE IF r.nodes[right].parent # node
                    THEN raise(r, "AssertionError")
                    ELSE [r EXCEPT !.nodes[right].parent = parent]

\* A slip of _swapnodewithparent: the nodes are relinked and their values
\* exchanged as well, so each value stays at its position.
swapnodewithparent_values(h, node) ==
    LET parent == h.nodes[node].parent
        g == swap_children(
                 swap_rotate(swap_attach(h, node, parent), node, parent),
                 node, parent, h.nodes[node].left, h.nodes[node].right)
    IN IF g.err # "ok" THEN g
       ELSE [g EXCEPT !.nodes[node].value = h.nodes[parent].value,
                      !.nodes[parent].value = h.nodes[node].value]

\* HeapTree._swapnodewithparent
_swapnodewithparent(h, node) ==
    LET parent == h.nodes[node].parent
    IN swap_children(
           swap_rotate(swap_attach(h, node, parent), node, parent),
           node, parent, h.nodes[node].left, h.nodes[node].right)

\* HeapTree._bubbleup
RECURSIVE _bubbleup(_, _)
_bubbleup(h, node) ==
    IF h.err # "ok" THEN h
    ELSE IF node = h.root THEN h
    ELSE IF h.nodes[node].parent = None THEN raise(h, "AttributeError")
    ELSE IF cmp(h, h.nodes[node].value, h.nodes[h.nodes[node].parent].value)
    THEN _bubbleup(_swapnodewithparent(h, node), node)
    ELSE h

\* A slip of _bubbledown: the right child is never looked at.
RECURSIVE bubbledown_leftonly(_, _)
bubbledown_leftonly(h, node) ==
    IF h.err # "ok" THEN h
    ELSE
    LET left == h.nodes[node].left
        largest == IF left # None /\ cmp(h, h.nodes[left].value, h.nodes[node].value)
                   THEN left ELSE node
    IN IF largest # node
       THEN bubbledown_leftonly(_swapnodewithparent(h, largest), node)
       ELSE h

\* HeapTree._bubbledown
RECURSIVE _bubbledown(_, _)
_bubbledown(h, node) ==
    IF h.err # "ok" THEN h
    ELSE
    LET left == h.nodes[node].left
        right == h.nodes[node].right
        l1 == IF left # None /\ cmp(h, h.nodes[left].value, h.nodes[node].value)
              THEN left ELSE node
        largest == IF right # None /\ cmp(h, h.nodes[right].value, h.nodes[l1].value)
                   THEN right ELSE l1
    IN IF largest # node
       THEN _bubbledown(_swapnodewithparent(h, largest), node)
       ELSE h

\* A slip of add: the parent is looked up at len >> 1 instead of
\* (len - 1) >> 1.
add_wrongparent(h, value) ==
    LET newnode == Len(h.nodes) + 1
        h0 == [h EXCEPT !.err = "ok", !.nodes = Append(@, HeapNode(value))]
    IN IF h0.root = None
       THEN [h0 EXCEPT !.root = newnode, !._size = @ + 1]
       ELSE LET parent == __getitem__(h0, len(h0) \div 2)
            IN IF parent = None THEN raise(h0, "IndexError")
               ELSE IF h0.nodes[parent].left # None /\ h0.nodes[parent].right # None
               THEN raise(h0, "AssertionError")
               ELSE LET h1 == IF h0.nodes[parent].left = None
                              THEN [h0 EXCEPT !.nodes[parent].left = newnode]
                              ELSE [h0 EXCEPT !.nodes[parent].right = newnode]
                        h2 == [h1 EXCEPT !.nodes[newnode].parent = parent]
                        h3 == _bubbleup(h2, newnode)
                    IN IF h3.err # "ok" THEN h3
                       ELSE [h3 EXCEPT !._size = @ + 1]

\* HeapTree.add; the handle returned is the last node of the result's store.
add(h, value) ==
    LET newnode == Len(h.nodes) + 1
        h0 == [h EXCEPT !.err = "ok", !.nodes = Append(@, HeapNode(value))]
    IN IF h0.root = None
       THEN [h0 EXCEPT !.root = newnode, !._size = @ + 1]
       ELSE LET parent == __getitem__(h0, (len(h0) - 1) \div 2)
            IN IF parent = None THEN raise(h0, "IndexError")
               ELSE IF h0.nodes[parent].left # None /\ h0.nodes[parent].right # None
               THEN raise(h0, "AssertionError")
               ELSE LET h1 == IF h0.nodes[parent].left = None
                              THEN [h0 EXCEPT !.nodes[parent].left = newnode]
                              ELSE [h0 EXCEPT !.nodes[parent].right = newnode]
                        h2 == [h1 EXCEPT !.nodes[newnode].parent = parent]
                        h3 == _bubbleup(h2, newnode)
                    IN IF h3.err # "ok" THEN h3
                       ELSE [h3 EXCEPT !._size = @ + 1]

\* A _replaceroot that does not re-parent the old root's right child.
replaceroot_norightparent(h, node) ==
    LET p == h.nodes[node].parent
    IN IF p = None THEN raise(h, "AttributeError")
       ELSE IF h.nodes[p].left # node /\ h.nodes[p].right # node
       THEN raise(h, "AssertionError")
       ELSE
       LET h1 == IF h.nodes[p].left = node
                 THEN [h EXCEPT !.nodes[p].left = None]
                 ELSE [h EXCEPT !.nodes[p].right = None]
           h2 == [h1 EXCEPT !.nodes[node].parent = None,
                            !.nodes[node].left = h1.nodes[h1.root].left]
           h3 == IF h2.nodes[node].left = None THEN h2
                 ELSE [h2 EXCEPT !.nodes[h2.nodes[node].left].parent = node]
           h4 == [h3 EXCEPT !.nodes[node].right = h3.nodes[h3.root].right]
           h6 == [h4 EXCEPT !.nodes[h4.root].left = None,
                            !.nodes[h4.root].right = None]
       IN [h6 EXCEPT !.root = node]

\* A _replaceroot that leaves the old root its links to its children.
replaceroot_keeplinks(h, node) ==
    LET p == h.nodes[node].parent
    IN IF p = None THEN raise(h, "AttributeError")
       ELSE IF h.nodes[p].left # node /\ h.nodes[p].right # node
       THEN raise(h, "AssertionError")
       ELSE
       LET h1 == IF h.nodes[p].left = node
                 THEN [h EXCEPT !.nodes[p].left = None]
                 ELSE [h EXCEPT !.nodes[p].right = None]
           h2 == [h1 EXCEPT !.nodes[node].parent = None,
                            !.nodes[node].left = h1.nodes[h1.root].left]
           h3 == IF h2.nodes[node].left = None THEN h2
                 ELSE [h2 EXCEPT !.nodes[h2.nodes[node].left].parent = node]
           h4 == [h3 EXCEPT !.nodes[node].right = h3.nodes[h3.root].right]
           h5 == IF h4.nodes[node].right = None THEN h4
                 ELSE [h4 EXCEPT !.nodes[h4.nodes[node].right].parent = node]
       IN [h5 EXCEPT !.root = node]

\* HeapTree._replaceroot
_replaceroot(h, node) ==
    LET p == h.nodes[node].parent
    IN IF p = None THEN raise(h, "AttributeError")
       ELSE IF h.nodes[p].left # node /\ h.nodes[p].right # node
       THEN raise(h, "AssertionError")
       ELSE
       LET h1 == IF h.nodes[p].left = node
                 THEN [h EXCEPT !.nodes[p].left = None]
                 ELSE [h EXCEPT !.nodes[p].right = None]
           h2 == [h1 EXCEPT !.nodes[node].parent = None,
                            !.nodes[node].left = h1.nodes[h1.root].left]
           h3 == IF h2.nodes[node].left = None THEN h2
                 ELSE [h2 EXCEPT !.nodes[h2.nodes[node].left].parent = node]
           h4 == [h3 EXCEPT !.nodes[node].right = h3.nodes[h3.root].right]
           h5 == IF h4.nodes[node].right = None THEN h4
                 ELSE [h4 EXCEPT !.nodes[h4.nodes[node].right].parent = node]
           h6 == [h5 EXCEPT !.nodes[h5.root].left = None,
                            !.nodes[h5.root].right = None]
       IN [h6 EXCEPT !.root = node]

\* A deleteroot that returns None from an empty heap instead of raising.
deleteroot_silent(h) ==
    LET h0 == [h EXCEPT !.err = "ok"]
        root == h0.root
    IN IF len(h0) = 0 THEN [h |-> h0, ret |-> None]
       ELSE IF len(h0) = 1
       THEN [h |-> [h0 EXCEPT !.root = None, !._size = @ - 1], ret |-> root]
       ELSE LET lastnode == __getitem__(h0, len(h0) - 1)
            IN IF lastnode = None
               THEN [h |-> raise(h0, "IndexError"), ret |-> None]
               ELSE LET h1 == _replaceroot(h0, lastnode)
                        h2 == _bubbledown(h1, lastnode)
                    IN IF h2.err # "ok" THEN [h |-> h2, ret |-> None]
                       ELSE [h |-> [h2 EXCEPT !._size = @ - 1], ret |-> root]

\* A slip of deleteroot: the promoted node is not sifted down.
deleteroot_nosift(h) ==
    LET h0 == [h EXCEPT !.err = "ok"]
        root == h0.root
    IN IF len(h0) = 0 THEN [h |-> raise(h0, "IndexError"), ret |-> None]
       ELSE IF len(h0) = 1
       THEN [h |-> [h0 EXCEPT !.root = None, !._size = @ - 1], ret |-> root]
       ELSE LET lastnode == __getitem__(h0, len(h0) - 1)
            IN IF lastnode = None
               THEN [h |-> raise(h0, "IndexError"), ret |-> None]
               ELSE LET h1 == _replaceroot(h0, lastnode)
                    IN IF h1.err # "ok" THEN [h |-> h1, ret |-> None]
                       ELSE [h |-> [h1 EXCEPT !._size = @ - 1], ret |-> root]

\* HeapTree.deleteroot: the heap after the call and the node returned.
deleteroot(h) ==
    LET h0 == [h EXCEPT !.err = "ok"]
        root == h0.root
    IN IF len(h0) = 0 THEN [h |-> raise(h0, "IndexError"), ret |-> None]
       ELSE IF len(h0) = 1
       THEN [h |-> [h0 EXCEPT !.root = None, !._size = @ - 1], ret |-> root]
       ELSE LET lastnode == __getitem__(h0, len(h0) - 1)
            IN IF lastnode = None
               THEN [h |-> raise(h0, "IndexError"), ret |-> None]
               ELSE LET h1 == _replaceroot(h0, lastnode)
                        h2 == _bubbledown(h1, lastnode)
                    IN IF h2.err # "ok" THEN [h |-> h2, ret |-> None]
                       ELSE [h |-> [h2 EXCEPT !._size = @ - 1], ret |-> root]

\* A slip of _heapify: the node is sifted up only.
heapify_uponly(h, node) ==
    _bubbleup([h EXCEPT !.err = "ok"], node)

\* HeapTree.to_list, lines 278-284: the loop, with the queue q and the list
\* a so far.
RECURSIVE to_list_from(_, _, _)
to_list_from(h, q, a) ==
    IF Len(q) = 0 THEN a
    ELSE LET head == Head(q)
             q1 == IF h.nodes[head].left # None
                   THEN Append(Tail(q), h.nodes[head].left) ELSE Tail(q)
             q2 == IF h.nodes[head].right # None
                   THEN Append(q1, h.nodes[head].right) ELSE q1
         IN to_list_from(h, q2, Append(a, h.nodes[head].value))

\* HeapTree.to_list
to_list(h) == IF h.root = None THEN <<>> ELSE to_list_from(h, <<h.root>>, <<>>)

\* HeapTree._heapify
_heapify(h, node) ==
    _bubbledown(_bubbleup([h EXCEPT !.err = "ok"], node), node)

\* The attributes of a HeapTree: those __init__ binds and the methods of
\* the class.
HeapTreeAttributes ==
    {"root", "_size", "cmp", "__init__", "__len__", "__getitem__", "add",
     "_bubbleup", "_bubbledown", "_swapnodewithparent", "deleteroot",
     "_replaceroot", "_heapify", "to_list"}

\* heap.<name>, for a call that follows: a name the object does not have
\* raises AttributeError before anything is called.
getattr(h, name) ==
    IF name \in HeapTreeAttributes THEN [h EXCEPT !.err = "ok"]
    ELSE raise(h, "AttributeError")

(***************************************************************************)
(* decomp.py                                                               *)
(*                                                                         *)
(* A list is a sequence whose Python index i is the TLA+ index i + 1.       *)
(* Coordinates are floats in the program; here they are counted in halves   *)
(* of a unit, so that the mean of two mesh coordinates is an integer.  A    *)
(* face corner is the tuple <<v, t, n>>, with NoRef for None.               *)
(***************************************************************************)

\* None as a texture or normal reference of a face corner.
NoRef == -1

\* seq[i]
item(seq, i) == IF i >= 0 THEN seq[i + 1] ELSE seq[Len(seq) + i + 1]

\* x ** 0.5, exact when x is a perfect square (rounded down otherwise).
sqrt(x) == CHOOSE r \in 0 .. x : r * r <= x /\ (r + 1) * (r + 1) > x

\* An Edge that keeps its endpoints in the order given.
Edge_unordered(a, b, length) == [a |-> a, b |-> b, length |-> length]

\* Edge.__init__ (the caller checks the assertion a != b)
Edge(a, b, length) ==
    [a |-> IF a < b THEN a ELSE b, b |-> IF a < b THEN b ELSE a, length |-> length]

\* Edge.get_ends
get_ends(edge) == <<edge.a, edge.b>>

\* EdgeSpace.calc_distance
calc_distance(vs, vertexindex1, vertexindex2) ==
    LET v1 == item(vs, vertexindex1)
        v2 == item(vs, vertexindex2)
        x == v2[1] - v1[1]
        y == v2[2] - v1[2]
        z == v2[3] - v1[3]
    IN sqrt((x * x) + (y * y) + (z * z))

\* EdgeSpace.create_mid
create_mid(vs, edge) ==
    LET v1 == item(vs, edge.a)
        v2 == item(vs, edge.b)
        x == (v1[1] + v2[1]) \div 2
        y == (v1[2] + v2[1]) \div 2
        z == (v1[3] + v2[1]) \div 2
    IN <<x, y, z>>

\* A collapse_edge that returns the length of the vertex list.
collapse_edge_length(vs, edge) ==
    LET vs1 == Append(vs, create_mid(vs, edge))
    IN [vertices |-> vs1, ret |-> Len(vs1)]

\* EdgeSpace.collapse_edge: the vertex list after the call and the index
\* returned.
collapse_edge(vs, edge) ==
    LET vs1 == Append(vs, create_mid(vs, edge))
    IN [vertices |-> vs1, ret |-> Len(vs1) - 1]

\* A dict with key k bound to v.
setitem(d, k, v) == [x \in DOMAIN d \cup {k} |-> IF x = k THEN v ELSE d[x]]

\* del d[k]
delitem(d, k) == [x \in DOMAIN d \ {k} |-> d[x]]

\* The empty dict.
dict == [x \in {} |-> None]

\* edge_map[k] of the defaultdict(dict): the dict after the access (a
\* missing key is bound to an empty dict).
touch(m, k) == IF k \in DOMAIN m THEN m ELSE setitem(m, k, dict)

\* edge_map[k1][k2] = v
setedge(m, k1, k2, v) ==
    LET m1 == touch(m, k1)
    IN setitem(m1, k1, setitem(m1[k1], k2, v))

\* create_edges, lines 207-217: the body of the inner loop, for corner p of
\* face f (p counted from 0).  st holds edge_heap, edge_map, the vertex
\* list of edgespace and the face list as the call has them so far, and
\* the exception raised, if any.
create_edge(st, f, p) ==
    IF st.err # "ok" THEN st
    ELSE
    LET p1 == item(f, p - 1)[1]
        p2 == item(f, p)[1]
    IN IF p1 = p2 THEN [st EXCEPT !.err = "AssertionError"]
       ELSE LET edge == Edge(p1, p2, calc_distance(st.vertices, p1, p2))
                h == add(st.edge_heap, edge)
                edge_node == Len(h.nodes)
            IN IF h.err # "ok" THEN [st EXCEPT !.edge_heap = h, !.err = h.err]
               ELSE [st EXCEPT !.edge_heap = h,
                               !.edge_map = setedge(setedge(@, p1, p2, edge_node),
                                                    p2, p1, edge_node)]

\* create_edges, line 206: the loop over the corners of face f, from corner
\* p on.
RECURSIVE create_edges_face(_, _, _)
create_edges_face(st, f, p) ==
    IF p >= Len(f) THEN st
    ELSE create_edges_face(create_edge(st, f, p), f, p + 1)

\* A loop over the faces that takes each face off the front of the list.
RECURSIVE create_edges_consuming(_, _)
create_edges_consuming(st, i) ==
    IF Len(st.faces) = 0 THEN st
    ELSE create_edges_consuming(
             create_edges_face([st EXCEPT !.faces = Tail(@)], Head(st.faces), 0), i)

\* create_edges, line 205: the loop over the faces, from face i on.
RECURSIVE create_edges_from(_, _)
create_edges_from(st, i) ==
    IF i >= Len(st.faces) THEN st
    ELSE create_edges_from(create_edges_face(st, item(st.faces, i), 0), i + 1)

\* create_edges(faces, edgespace): the heap and the map it returns, and the
\* face list and the vertex list of edgespace as it leaves them.
create_edges(fs, vs) ==
    create_edges_from([edge_heap |-> HeapTree("cmp_shortest_edge"),
                       edge_map |-> dict, err |-> "ok",
                       vertices |-> vs, faces |-> fs],
                      0)

\* skeletonise_step, lines 254-257 for one end i of the popped edge: the
\* entries of edge_map[i] are copied under new_vert_index and edge_map[i]
\* is deleted.
RECURSIVE copy_entries(_, _, _, _)
copy_entries(m, d, keys, new_vert_index) ==
    IF keys = {} THEN m
    ELSE LET j == CHOOSE k \in keys : TRUE
         IN copy_entries(setedge(m, new_vert_index, j, d[j]), d, keys \ {j},
                         new_vert_index)

move_entries(m, i, new_vert_index) ==
    delitem(copy_entries(touch(m, i), touch(m, i)[i], DOMAIN touch(m, i)[i],
                         new_vert_index),
            i)

\* skeletonise_step, lines 253-260, for the popped edge's ends and the new
\* vertex index: both ends' entries are moved, then line 260 looks up
\* edge_map[new_vert_index] to delete the key `shortest` from it.
remap(m, ends, new_vert_index) ==
    touch(move_entries(move_entries(m, ends[1], new_vert_index),
                       ends[2], new_vert_index),
          new_vert_index)

\* skeletonise_step, lines 240-260, with the node popped from the heap h
\* and c the outcome of collapse_edge.  Line 260 deletes the key `shortest`,
\* a HeapNode, from a dict whose keys are all vertex indices (lines 216-217
\* and 256), which raises KeyError; lines 263-267 are not reached.
step_collapse(st, h, shortest, c) ==
    [edge_heap |-> h,
     vertices |-> c.vertices,
     edge_map |-> remap(st.edge_map, get_ends(h.nodes[shortest].value), c.ret),
     removed_edgenodes |-> Append(st.removed_edgenodes, shortest),
     pc |-> "KeyError"]

\* A skeletonise_step without the try: deleteroot's IndexError ends it.
step_popped_uncaught(st, r) ==
    IF r.h.err # "ok" THEN [st EXCEPT !.edge_heap = r.h, !.pc = r.h.err]
    ELSE step_collapse(st, r.h, r.ret,
                       collapse_edge(st.vertices, r.h.nodes[r.ret].value))

\* skeletonise_step, lines 234-248, with r the outcome of deleteroot: on an
\* empty heap the step returns (line 238).
step_popped(st, r) ==
    IF r.h.err = "IndexError" THEN [st EXCEPT !.edge_heap = r.h, !.pc = "return"]
    ELSE IF r.h.err # "ok" THEN [st EXCEPT !.edge_heap = r.h, !.pc = r.h.err]
    ELSE step_collapse(st, r.h, r.ret,
                       collapse_edge(st.vertices, r.h.nodes[r.ret].value))

\* skeletonise_step(edge_heap, edgespace, edge_map, removed_edgenodes): the
\* state it leaves and how it ends.
skeletonise_step(st) == step_popped(st, deleteroot(st.edge_heap))

\* skeletonise(edgespace, edge_heap, edge_map): the state it leaves and how
\* it ends.  The loop's body names removed_edgenodes, which is bound
\* nowhere (line 227 binds removed_edges), so the first iteration raises
\* NameError while the call's arguments are evaluated, before
\* skeletonise_step is entered; on an empty heap the loop is not entered.
skeletonise(st) ==
    IF len(st.edge_heap) > 0 THEN [st EXCEPT !.pc = "NameError"]
    ELSE [st EXCEPT !.pc = "skeletonise"]

(***************************************************************************)
(* decomp.py: read_model                                                   *)
(*                                                                         *)
(* A str is the sequence of its characters.  A line of the file is given   *)
(* by its words, the list line.split() makes of it.                        *)
(***************************************************************************)

DigitChars == <<"0", "1", "2", "3", "4", "5", "6", "7", "8", "9">>

\* str(n) of an int n >= 0
RECURSIVE str(_)
str(n) ==
    IF n < 10 THEN <<DigitChars[n + 1]>>
    ELSE str(n \div 10) \o <<DigitChars[(n % 10) + 1]>>

\* s is a literal int() and float() both accept: of the characters a line
\* of the model is made of, only a non-empty run of digits is one.
isnumber(s) ==
    /\ Len(s) > 0
    /\ \A i \in 1 .. Len(s) : \E d \in 0 .. 9 : DigitChars[d + 1] = s[i]

\* int(s) of such a literal
RECURSIVE int(_)
int(s) ==
    IF Len(s) = 0 THEN 0
    ELSE 10 * int(SubSeq(s, 1, Len(s) - 1))
         + (CHOOSE d \in 0 .. 9 : DigitChars[d + 1] = s[Len(s)])

\* float(s) of such a literal, in halves of a unit
float(s) == 2 * int(s)

\* s.find(sub)
find(s, sub) ==
    LET at == {i \in 0 .. (Len(s) - Len(sub)) : SubSeq(s, i + 1, i + Len(sub)) = sub}
    IN IF at = {} THEN -1 ELSE CHOOSE i \in at : \A j \in at : i <= j

\* s.split(sep)
RECURSIVE split(_, _)
split(s, sep) ==
    LET i == find(s, sep)
    IN IF i = -1 THEN <<s>>
       ELSE <<SubSeq(s, 1, i)>> \o split(SubSeq(s, i + Len(sep) + 1, Len(s)), sep)

\* A node read as None where it has no reference.
node_v(v) == <<v, NoRef, NoRef>>

\* read_model, lines 61-77: the node (v, t, n) of the token vert, or the
\* exception raised.  In the v//n branch the lambda subtracts 1 from the
\* first str of the split, which raises TypeError.
read_node(vert) ==
    IF find(vert, <<"/", "/">>) # -1
    THEN [err |-> "TypeError", node |-> <<>>]
    ELSE LET elems == split(vert, <<"/">>)
         IN IF Len(elems) = 1
            THEN IF ~isnumber(vert) THEN [err |-> "ValueError", node |-> <<>>]
                 ELSE [err |-> "ok", node |-> node_v(int(vert) - 1)]
            ELSE IF Len(elems) = 2
            THEN IF ~isnumber(elems[1]) \/ ~isnumber(elems[2])
                 THEN [err |-> "ValueError", node |-> <<>>]
                 ELSE [err |-> "ok",
                       node |-> <<int(elems[1]) - 1, int(elems[2]) - 1, NoRef>>]
            ELSE IF Len(elems) = 3
            THEN IF ~isnumber(elems[1]) \/ ~isnumber(elems[2]) \/ ~isnumber(elems[3])
                 THEN [err |-> "ValueError", node |-> <<>>]
                 ELSE [err |-> "ok",
                       node |-> <<int(elems[1]) - 1, int(elems[2]) - 1,
                                  int(elems[3]) - 1>>]
            ELSE [err |-> "Exception", node |-> <<>>]

\* read_model, lines 60-80: the loop over the tokens words[j:] of a face
\* line; r holds the face so far and the exception raised, if any.
RECURSIVE read_nodes(_, _, _)
read_nodes(r, words, j) ==
    IF r.err # "ok" \/ j >= Len(words) THEN r
    ELSE LET c == read_node(item(words, j))
         IN read_nodes(IF c.err # "ok" THEN [r EXCEPT !.err = c.err]
                       ELSE [r EXCEPT !.face = Append(@, c.node)],
                       words, j + 1)

\* read_model, lines 55-86: a face line; m holds verts, norms and faces so
\* far and the exception raised, if any.
read_face(m, r) ==
    IF r.err # "ok" THEN [m EXCEPT !.err = r.err]
    ELSE IF Len(r.face) \notin {3, 4} THEN [m EXCEPT !.err = "Exception"]
    ELSE [m EXCEPT !.faces = Append(@, r.face)]

\* read_model, lines 42-51: the triple of floats of a "v" or "vn" line, or
\* the exception raised.
read_xyz(words) ==
    IF Len(words) < 2 THEN [err |-> "IndexError", xyz |-> <<>>]
    ELSE IF ~isnumber(words[2]) THEN [err |-> "ValueError", xyz |-> <<>>]
    ELSE IF Len(words) < 3 THEN [err |-> "IndexError", xyz |-> <<>>]
    ELSE IF ~isnumber(words[3]) THEN [err |-> "ValueError", xyz |-> <<>>]
    ELSE IF Len(words) < 4 THEN [err |-> "IndexError", xyz |-> <<>>]
    ELSE IF ~isnumber(words[4]) THEN [err |-> "ValueError", xyz |-> <<>>]
    ELSE [err |-> "ok", xyz |-> <<float(words[2]), float(words[3]), float(words[4])>>]

\* read_model, lines 42-51, with t the outcome for the line's words.
read_vertex(m, t, field) ==
    IF t.err # "ok" THEN [m EXCEPT !.err = t.err]
    ELSE [m EXCEPT ![field] = Append(@, t.xyz)]

\* read_model, lines 37-89: the body of the loop, for a line's words.
read_line(m, words) ==
    IF m.err # "ok" \/ Len(words) = 0 THEN m
    ELSE IF words[1] = <<"v">> THEN read_vertex(m, read_xyz(words), "verts")
    ELSE IF words[1] = <<"v", "n">> THEN read_vertex(m, read_xyz(words), "norms")
    ELSE IF words[1] = <<"v", "t">> THEN m
    ELSE IF words[1] = <<"f">>
    THEN read_face(m, read_nodes([face |-> <<>>, err |-> "ok"], words, 1))
    ELSE m

\* read_model, line 36: the loop over the lines, from line i on.
RECURSIVE read_lines(_, _, _)
read_lines(m, ls, i) ==
    IF i >= Len(ls) THEN m
    ELSE read_lines(read_line(m, item(ls, i)), ls, i + 1)

\* read_model(filename), for a file of lines ls: verts, norms and faces as
\* returned, or the exception raised.
read_model(ls) ==
    read_lines([verts |-> <<>>, norms |-> <<>>, faces |-> <<>>, err |-> "ok"], ls, 0)

(***************************************************************************)
(* Reading a heap                                                          *)
(***************************************************************************)

\* The nodes linked below node through left/right, node included, following
\* at most depth links (a heap of k nodes has no path longer than k).
RECURSIVE subtree(_, _, _)
subtree(h, node, depth) ==
    IF node = None \/ depth = 0 THEN {}
    ELSE {node} \cup subtree(h, h.nodes[node].left, depth - 1)
                \cup subtree(h, h.nodes[node].right, depth - 1)

\* The nodes currently in the heap: those linked from the root.
InHeap(h) == subtree(h, h.root, Len(h.nodes) + 1)

\* Level-order indices that a tree over the store's nodes can occupy.
Indices(h) == 0 .. (2 * Len(h.nodes) + 2)

\* x compares strictly better than y under the heap's comparator.
StrictlyBetter(h, x, y) == cmp(h, x, y) /\ ~cmp(h, y, x)

\* The present children of a node.
Children(h, n) == {h.nodes[n].left, h.nodes[n].right} \ {None}

(***************************************************************************)
(* Calls on a HeapTree                                                     *)
(***************************************************************************)

Comparators == {"le", "lt", "ge", "gt"}
Values == 1 .. MaxVal

\* An exception other than deleteroot's IndexError on an empty heap ends
\* the caller.
Running(h) == h.err \in {"ok", "IndexError"}

\* The decomp pipeline before main() has run.
DIdle ==
    /\ vertices = <<>>
    /\ faces = <<>>
    /\ edge_heap = HeapTree("cmp_shortest_edge")
    /\ edge_map = dict
    /\ removed_edgenodes = <<>>
    /\ pc = "start"
    /\ lines = <<>>

\* The heap under test before any call (the default comparator).
HIdle ==
    /\ heap = HeapTree("le")
    /\ given = <<>>
    /\ ret = None
    /\ op = <<"HeapTree", None>>

\* heap = HeapTree(cmp=c)
HInit ==
    /\ \E c \in Comparators : heap = HeapTree(c)
    /\ given = <<>>
    /\ ret = None
    /\ op = <<"HeapTree", None>>
    /\ DIdle

\* The caller drops the node its last call returned once it makes the
\* next call: a node that is no longer in the heap and no longer referenced
\* is garbage, and its slot of the store is cleared.
drop(h, n) ==
    IF n = None \/ n \in InHeap(h) THEN h
    ELSE [h EXCEPT !.nodes[n] = HeapNode(None)]

\* The caller's record of the values it handed in, without the dropped node.
known(g, h, n) ==
    IF n = None \/ n \in InHeap(h) THEN g ELSE [g EXCEPT ![n] = None]

\* handle = heap.add(v)
Add(v) ==
    /\ Running(heap)
    /\ Len(heap.nodes) < MaxNodes
    /\ heap' = add(drop(heap, ret), v)
    /\ ret' = IF heap'.err = "ok" THEN Len(heap'.nodes) ELSE None
    /\ given' = Append(known(given, heap, ret), v)
    /\ op' = <<"add", None>>
    /\ UNCHANGED dvars

\* node = heap.deleteroot()
DeleteRoot ==
    /\ Running(heap)
    /\ LET r == deleteroot(drop(heap, ret))
       IN /\ heap' = r.h
          /\ ret' = r.ret
    /\ given' = known(given, heap, ret)
    /\ op' = <<"deleteroot", None>>
    /\ UNCHANGED dvars

\* heap._bubbleup(n) on a node of the heap
BubbleUp(n) ==
    /\ Running(heap)
    /\ n \in InHeap(heap)
    /\ heap' = _bubbleup([drop(heap, ret) EXCEPT !.err = "ok"], n)
    /\ ret' = None
    /\ given' = known(given, heap, ret)
    /\ op' = <<"_bubbleup", None>>
    /\ UNCHANGED dvars

\* heap._bubbledown(n) on a node of the heap
BubbleDown(n) ==
    /\ Running(heap)
    /\ n \in InHeap(heap)
    /\ heap' = _bubbledown([drop(heap, ret) EXCEPT !.err = "ok"], n)
    /\ ret' = None
    /\ given' = known(given, heap, ret)
    /\ op' = <<"_bubbledown", None>>
    /\ UNCHANGED dvars

\* n.value = v; heap._heapify(n): the caller changes the value held by a
\* node of the heap and re-heapifies from it (decomp.py lines 262-267).
Reheapify(n, v) ==
    /\ Running(heap)
    /\ n \in InHeap(heap)
    /\ heap' = _heapify([drop(heap, ret) EXCEPT !.nodes[n].value = v], n)
    /\ given' = [known(given, heap, ret) EXCEPT ![n] = v]
    /\ ret' = None
    /\ op' = <<"_heapify", n>>
    /\ UNCHANGED dvars

HNext ==
    \/ \E v \in Values : Add(v)
    \/ DeleteRoot
    \/ \E n \in 1 .. MaxNodes : BubbleUp(n)
    \/ \E n \in 1 .. MaxNodes : BubbleDown(n)

RNext ==
    \/ \E v \in Values : Add(v)
    \/ DeleteRoot
    \/ \E n \in 1 .. MaxNodes, v \in Values : Reheapify(n, v)

\* heap.deleteHandle(n) on a node of the heap: HeapTree has no method of
\* this name (nor any other that removes a node that is not the root).
DeleteHandle(n) ==
    /\ Running(heap)
    /\ n \in InHeap(heap)
    /\ heap' = getattr(drop(heap, ret), "deleteHandle")
    /\ ret' = None
    /\ given' = known(given, heap, ret)
    /\ op' = <<"deleteHandle", n>>
    /\ UNCHANGED dvars

DNext ==
    \/ \E v \in Values : Add(v)
    \/ DeleteRoot
    \/ \E n \in 1 .. MaxNodes : DeleteHandle(n)

\* A heap driven by add, deleteroot and the sifting calls.
SpecHeap == HInit /\ [][HNext]_vars

\* A heap whose values are changed by the caller, with _heapify after each.
SpecReheap == HInit /\ [][RNext]_vars

\* A heap driven by add, deleteroot and deleteHandle.
SpecDelete == HInit /\ [][DNext]_vars

\* a.swap(b) on two distinct nodes of the heap
Swap(a, b) ==
    /\ Running(heap)
    /\ a \in InHeap(heap)
    /\ b \in InHeap(heap)
    /\ a # b
    /\ heap' = swap([drop(heap, ret) EXCEPT !.err = "ok"], a, b)
    /\ ret' = None
    /\ given' = known(given, heap, ret)
    /\ op' = <<"swap", <<a, b>>>>
    /\ UNCHANGED dvars

\* The tree is built by add and deleteroot; a swap is the last call made
\* on it.
SNext ==
    \/ op[1] # "swap" /\ \E v \in Values : Add(v)
    \/ op[1] # "swap" /\ DeleteRoot
    \/ op[1] # "swap" /\ \E a \in 1 .. MaxNodes, b \in 1 .. MaxNodes : Swap(a, b)

\* A heap built by add and deleteroot, then a swap of two of its nodes.
SpecSwap == HInit /\ [][SNext]_vars

(***************************************************************************)
(* The decomp pipeline: main() up to create_edges, then collapse steps      *)
(***************************************************************************)

\* The vertex list read_model returns for the meshes of the model: the
\* corners of a 3 x 4 rectangle in the plane z = 0, in halves of a unit.
\* Its sides measure 6 and 8 halves and its diagonals 10.
Rectangle == << <<0, 0, 0>>, <<6, 0, 0>>, <<6, 8, 0>>, <<0, 8, 0>> >>

\* A face corner as read_model stores it for a "v" token.
corner(v) == <<v, NoRef, NoRef>>

\* Faces a mesh of the model is made of: the four triangles and the quad on
\* the rectangle's corners, and a face whose first and last corners are the
\* same vertex.
FaceChoices ==
    { <<corner(0), corner(1), corner(2)>>,
      <<corner(0), corner(2), corner(3)>>,
      <<corner(0), corner(1), corner(3)>>,
      <<corner(1), corner(2), corner(3)>>,
      <<corner(0), corner(1), corner(2), corner(3)>>,
      <<corner(0), corner(1), corner(0)>> }

\* The face lists read_model can return here.
Meshes == UNION {[1 .. k -> FaceChoices] : k \in 0 .. MaxFaces}

\* main(), lines 272-278: the mesh is read and handed to EdgeSpace.
DInit ==
    /\ vertices = Rectangle
    /\ faces \in Meshes
    /\ edge_heap = HeapTree("cmp_shortest_edge")
    /\ edge_map = dict
    /\ removed_edgenodes = <<>>
    /\ pc = "start"
    /\ lines = <<>>
    /\ HIdle

\* edgespace = EdgeSpace(verts)
\* edge_heap, edge_map = create_edges(faces, edgespace)
CreateEdges ==
    /\ pc = "start"
    /\ LET st == create_edges(faces, vertices)
       IN /\ vertices' = st.vertices
          /\ faces' = st.faces
          /\ IF st.err = "ok"
             THEN /\ edge_heap' = st.edge_heap
                  /\ edge_map' = st.edge_map
                  /\ pc' = "create_edges"
             ELSE /\ pc' = st.err
                  /\ UNCHANGED <<edge_heap, edge_map>>
    /\ UNCHANGED <<removed_edgenodes, lines>>
    /\ UNCHANGED hvars

\* The pipeline's state after a call that left st.
Becomes(st) ==
    /\ edge_heap' = st.edge_heap
    /\ vertices' = st.vertices
    /\ edge_map' = st.edge_map
    /\ removed_edgenodes' = st.removed_edgenodes
    /\ pc' = st.pc

\* skeletonise_step(edge_heap, edgespace, edge_map, removed_edgenodes)
SkeletoniseStep ==
    /\ pc \in {"create_edges", "KeyError", "return"}
    /\ Becomes(skeletonise_step([edge_heap |-> edge_heap,
                                 vertices |-> vertices,
                                 edge_map |-> edge_map,
                                 removed_edgenodes |-> removed_edgenodes,
                                 pc |-> pc]))
    /\ UNCHANGED <<faces, lines>>
    /\ UNCHANGED hvars

\* skeletonise(edgespace, edge_heap, edge_map), main() line 281
Skeletonise ==
    /\ pc = "create_edges"
    /\ Becomes(skeletonise([edge_heap |-> edge_heap,
                            vertices |-> vertices,
                            edge_map |-> edge_map,
                            removed_edgenodes |-> removed_edgenodes,
                            pc |-> pc]))
    /\ UNCHANGED <<faces, lines>>
    /\ UNCHANGED hvars

Init == DInit

Next ==
    \/ CreateEdges
    \/ SkeletoniseStep
    \/ Skeletonise

\* The pipeline of decomp.py on a mesh.
Spec == Init /\ [][Next]_vars

(***************************************************************************)
(* The loader: main() line 272, on small files                             *)
(***************************************************************************)

\* The 1-based references the tokens of the model write.
Refs == 1 .. MaxRef

\* What a token refers to: <<v, t, n>>, with NoRef for a reference the
\* token does not have.
NodeRefs == {<<v, t, n>> : v \in Refs, t \in Refs \cup {NoRef}, n \in Refs \cup {NoRef}}

\* The token that writes c, in the formats of the comment at line 58:
\* "v", "v//n", "v/t", "v/t/n".
token(c) ==
    IF c[2] = NoRef /\ c[3] = NoRef THEN str(c[1])
    ELSE IF c[2] = NoRef THEN str(c[1]) \o <<"/", "/">> \o str(c[3])
    ELSE IF c[3] = NoRef THEN str(c[1]) \o <<"/">> \o str(c[2])
    ELSE str(c[1]) \o <<"/">> \o str(c[2]) \o <<"/">> \o str(c[3])

Tokens == {token(c) : c \in NodeRefs}

\* Face lines: "f", two tokens of any format, and up to two "v" tokens.
FaceLines ==
    {<<<<"f">>, t1, t2>> \o more :
        t1 \in Tokens, t2 \in Tokens,
        more \in {<<>>} \cup {<<str(v)>> : v \in Refs}
                        \cup {<<str(v), str(w)>> : v \in Refs, w \in Refs}}

\* Other lines: blank, vertex, normal, texture, group, a face with
\* references of two digits, and malformed lines.
OtherLines ==
    { <<>>,
      <<<<"v">>, <<"1">>, <<"2">>, <<"1", "0">>>>,
      <<<<"v", "n">>, <<"0">>, <<"0">>, <<"1">>>>,
      <<<<"v", "t">>, <<"1">>, <<"2">>>>,
      <<<<"g">>, <<"x">>>>,
      <<<<"f">>, <<"1", "0">>, <<"1", "1", "/", "1", "2">>,
        <<"1", "3", "/", "1", "4", "/", "1", "5">>>>,
      <<<<"v">>, <<"1">>, <<"2">>>>,
      <<<<"v">>, <<"1">>, <<"x">>, <<"2">>>>,
      <<<<"f">>, <<"1", "/">>, <<"2">>, <<"3">>>>,
      <<<<"f">>, <<"1", "/", "2", "/", "3", "/", "4">>, <<"2">>, <<"3">>>> }

\* The files read here: of no line, of one line, of two other lines.
Files ==
    {<<>>} \cup {<<l>> : l \in FaceLines \cup OtherLines}
           \cup {<<l1, l2>> : l1 \in OtherLines, l2 \in OtherLines}

\* main() before line 272.
LInit ==
    /\ lines \in Files
    /\ vertices = <<>>
    /\ faces = <<>>
    /\ edge_heap = HeapTree("cmp_shortest_edge")
    /\ edge_map = dict
    /\ removed_edgenodes = <<>>
    /\ pc = "main"
    /\ HIdle

\* main() after a read_model that left m: verts and faces are bound if it
\* returned (norms is deleted at line 275).
Reads(m) ==
    /\ pc' = IF m.err = "ok" THEN "read_model" ELSE m.err
    /\ vertices' = IF m.err = "ok" THEN m.verts ELSE vertices
    /\ faces' = IF m.err = "ok" THEN m.faces ELSE faces

\* verts, norms, faces = read_model(filename)
ReadModel ==
    /\ pc = "main"
    /\ Reads(read_model(lines))
    /\ UNCHANGED <<edge_heap, edge_map, removed_edgenodes, lines>>
    /\ UNCHANGED hvars

LNext == ReadModel

\* read_model on a file.
SpecLoad == LInit /\ [][LNext]_vars

(***************************************************************************)
(* Properties of the heap                                                  *)
(***************************************************************************)

\* Order: no child of a node of h compares strictly better than the node.
OrderOK(h) ==
    \A n \in InHeap(h) : \A c \in Children(h, n) :
        ~StrictlyBetter(h, h.nodes[c].value, h.nodes[n].value)

\* Shape: a node is found at level-order index i exactly when i < len(h).
ShapeOK(h) ==
    \A i \in Indices(h) : (__getitem__(h, i) # None) <=> (i < len(h))

\* Index a is i or an ancestor of i.
RECURSIVE IsAncestor(_, _)
IsAncestor(a, i) == a = i \/ (i > a /\ IsAncestor(a, (i - 1) \div 2))

\* Index i lies on the tree path between the indices p and q: it is above
\* p or q (or is one of them) and below every common ancestor of both.
OnPath(i, p, q) ==
    /\ IsAncestor(i, p) \/ IsAncestor(i, q)
    /\ \A a \in 0 .. i : (IsAncestor(a, p) /\ IsAncestor(a, q)) => IsAncestor(a, i)

\* C1: Heap order: in every state reached by add and deleteroot (and the
\* sifting calls) under any of the injected comparators, no child's value
\* compares strictly better than its parent's value.
HeapOrder == Running(heap) /\ OrderOK(heap)

\* A max-heap of three or more nodes after a deleteroot, the root holding
\* a value strictly better than one of its children.
HeapOrderWitness ==
    /\ op[1] = "deleteroot"
    /\ heap.cmp = "gt"
    /\ len(heap) >= 3
    /\ \E c \in Children(heap, heap.root) :
           StrictlyBetter(heap, heap.nodes[heap.root].value, heap.nodes[c].value)

\* C2: Heap shape: in every state reached by add and deleteroot the linked
\* tree is complete: a node exists at level-order index i exactly when
\* 0 <= i < len(heap), and the nodes linked from the root are len(heap) many.
HeapShape ==
    /\ Running(heap)
    /\ ShapeOK(heap)
    /\ Cardinality(InHeap(heap)) = len(heap)

\* A heap of three nodes left by a deleteroot on a heap of four.
HeapShapeWitness ==
    /\ op[1] = "deleteroot"
    /\ ret # None
    /\ len(heap) = 3
    /\ __getitem__(heap, 2) # None

\* C3: Handle stability: every handle returned by add that is still in the
\* heap carries the value it was added with, and add returns a handle in
\* the heap that carries the value added.
HandleStability ==
    /\ \A n \in InHeap(heap) : heap.nodes[n].value = given[n]
    /\ (op[1] = "add" /\ heap.err = "ok") =>
           /\ ret \in InHeap(heap)
           /\ ret = Len(given)

\* The handle added first has been sifted away from the root by later
\* calls and still carries its value, different from the root's.
HandleStabilityWitness ==
    /\ len(heap) >= 3
    /\ 1 \in InHeap(heap)
    /\ heap.root # 1
    /\ heap.nodes[1].value = given[1]
    /\ heap.nodes[heap.root].value # given[1]

\* C4: deleteroot on a non-empty heap removes and returns the best value:
\* the node returned is no longer in the heap, the size is one less, no
\* value left in the heap compares strictly better than the returned one,
\* and a deleteroot that follows another returns a value that is not
\* strictly better than the one returned before (comparator order).
DeleteRootBest ==
    [][(op'[1] = "deleteroot" /\ len(heap) > 0) =>
          /\ ret' = heap.root
          /\ ret' \notin InHeap(heap')
          /\ len(heap') = len(heap) - 1
          /\ \A n \in InHeap(heap') :
                 ~StrictlyBetter(heap', heap'.nodes[n].value, heap'.nodes[ret'].value)
          /\ (op[1] = "deleteroot" /\ ret # None) =>
                 ~StrictlyBetter(heap', heap'.nodes[ret'].value, heap.nodes[ret].value)
      ]_vars

\* A deleteroot on a min-heap returned a node and left two or more nodes in
\* the heap, one of them with a strictly worse value.
DeleteRootBestWitness ==
    /\ op[1] = "deleteroot"
    /\ ret # None
    /\ heap.cmp = "lt"
    /\ len(heap) >= 2
    /\ \E n \in InHeap(heap) :
           StrictlyBetter(heap, heap.nodes[ret].value, heap.nodes[n].value)

\* The nodes of a heap of complete shape in level order (to_list's order).
Level(h) == [i \in 0 .. (len(h) - 1) |-> __getitem__(h, i)]

\* From heap h to heap g, only indices on the tree path between the old and
\* the new index of node n have changed their occupant.
PathOnly(h, g, n) ==
    LET before == Level(h)
        after == Level(g)
        p == CHOOSE i \in DOMAIN before : before[i] = n
        q == CHOOSE i \in DOMAIN after : after[i] = n
    IN \A i \in DOMAIN before : before[i] # after[i] => OnPath(i, p, q)

EmptyHeap ==
    [][/\ (op'[1] = "deleteroot" /\ len(heap) = 0) =>
              /\ heap'.err = "IndexError"
              /\ ret' = None
              /\ len(heap') = 0
              /\ heap'.root = None
       /\ (op'[1] = "add" /\ heap.err = "IndexError") =>
              /\ heap'.err = "ok"
              /\ len(heap') = 1
              /\ ret' # None
              /\ heap'.root = ret'
              /\ InHeap(heap') = {ret'}
              /\ heap'.nodes[ret'].value = given'[ret']
      ]_vars

\* deleteroot has failed on a heap that had held two nodes and was emptied
\* by two deleteroot calls.
EmptyHeapWitness ==
    /\ op[1] = "deleteroot"
    /\ heap.err = "IndexError"
    /\ ret = None
    /\ len(heap) = 0
    /\ Len(given) = 2

\* The handles the caller holds a value for.
Known == {n \in DOMAIN given : given[n] # None}

Kept == Known \ (IF op[1] = "deleteroot" THEN {ret} ELSE {})

\* The number of times v is in the list a.
Count(a, v) == Cardinality({i \in DOMAIN a : a[i] = v})

\* C20: Content conservation: len(heap) is the number of nodes linked from
\* the root; these are the nodes added and not returned by deleteroot, and
\* the values to_list finds in the heap are, value by value as many times,
\* the values of those nodes; the node deleteroot returned has left, right
\* and parent None.
ContentConservation ==
    /\ Running(heap)
    /\ len(heap) = Cardinality(InHeap(heap))
    /\ InHeap(heap) = Kept
    /\ Len(to_list(heap)) = len(heap)
    /\ \A v \in Values :
           Count(to_list(heap), v) = Cardinality({n \in Kept : given[n] = v})
    /\ (op[1] = "deleteroot" /\ ret # None) =>
           /\ heap.nodes[ret].left = None
           /\ heap.nodes[ret].right = None
           /\ heap.nodes[ret].parent = None

\* deleteroot has returned the root of a heap of four nodes that held the
\* same value twice.
ContentConservationWitness ==
    /\ op[1] = "deleteroot"
    /\ ret # None
    /\ len(heap) = 3
    /\ \E v \in Values : Count(to_list(heap), v) >= 2
    /\ Cardinality({heap.nodes[n].value : n \in InHeap(heap)}) >= 2

\* C14: Arbitrary deletion: deleteHandle(handle) on any node of the heap
\* succeeds; after it the size is one less, the handle is no longer in the
\* heap, every other handle is still in it with its own value, and order
\* and shape hold.
ArbitraryDeletion ==
    op[1] = "deleteHandle" =>
        /\ heap.err = "ok"
        /\ len(heap) = Cardinality(Known) - 1
        /\ InHeap(heap) = Known \ {op[2]}
        /\ \A n \in InHeap(heap) : heap.nodes[n].value = given[n]
        /\ OrderOK(heap)
        /\ ShapeOK(heap)

\* The node in x's place once the nodes a and b have exchanged places.
Exchanged(a, b, x) == IF x = a THEN b ELSE IF x = b THEN a ELSE x

\* C21: HeapNode.swap(other) on two distinct nodes of a tree exchanges
\* their places: it raises nothing, every link of the tree is as before
\* with a and b exchanged, so that each of the two has the other's former
\* parent and children (itself replaced by the other where the two are
\* parent and child) and each former parent's slot holds the node that
\* took the place, and every child's parent link names the node that links
\* the child.
SwapExchanges ==
    [][op'[1] = "swap" =>
           LET a == op'[2][1]
               b == op'[2][2]
           IN /\ heap'.err = "ok"
              /\ \A n \in InHeap(heap) :
                     LET m == Exchanged(a, b, n)
                     IN /\ heap'.nodes[m].parent = Exchanged(a, b, heap.nodes[n].parent)
                        /\ heap'.nodes[m].left = Exchanged(a, b, heap.nodes[n].left)
                        /\ heap'.nodes[m].right = Exchanged(a, b, heap.nodes[n].right)
              /\ \A n \in InHeap(heap) : \A c \in Children(heap', n) :
                     heap'.nodes[c].parent = n
    ]_vars

(***************************************************************************)
(* Properties of the edge index                                            *)
(***************************************************************************)

\* The edges in the heap, by handle.
ActiveEdges == InHeap(edge_heap)

\* The handles registered in the adjacency map under vertex v.
Registered(v) ==
    IF v \in DOMAIN edge_map THEN {edge_map[v][j] : j \in DOMAIN edge_map[v]} ELSE {}

\* Every vertex index in use: of the vertex list or of the adjacency map.
VertexIndices == (0 .. (Len(vertices) - 1)) \cup DOMAIN edge_map

\* The edge popped by the last collapse step.
Popped == edge_heap.nodes[removed_edgenodes[Len(removed_edgenodes)]].value

\* C6: No duplicates: after create_edges and after any number of collapse
\* steps the heap holds at most one edge per canonical vertex pair.
NoDuplicateEdges ==
    \A n1, n2 \in ActiveEdges :
        get_ends(edge_heap.nodes[n1].value) = get_ends(edge_heap.nodes[n2].value)
            => n1 = n2

\* C7: Size consistency: after create_edges and between collapse steps
\* len(edge_heap) is the number of distinct handles registered in the
\* adjacency map.
SizeConsistency ==
    len(edge_heap) = Cardinality(UNION {Registered(v) : v \in VertexIndices})

\* C8: Adjacency exactness: after create_edges and after every collapse
\* step, the handles registered under a vertex are exactly the handles of
\* the edges in the heap that have the vertex as an endpoint.
AdjacencyExact ==
    \A v \in VertexIndices :
        Registered(v) = {n \in ActiveEdges :
                             v \in {edge_heap.nodes[n].value.a, edge_heap.nodes[n].value.b}}

\* C9: No stale endpoints: after a collapse step that popped edge (a, b),
\* no edge in the heap has a or b as an endpoint and neither a nor b is a
\* key of the adjacency map or a neighbour registered under another vertex.
NoStaleEndpoints ==
    pc = "KeyError" =>
        LET ends == {Popped.a, Popped.b}
        IN /\ \A n \in ActiveEdges :
                  {edge_heap.nodes[n].value.a, edge_heap.nodes[n].value.b} \cap ends = {}
           /\ DOMAIN edge_map \cap ends = {}
           /\ \A v \in DOMAIN edge_map : DOMAIN edge_map[v] \cap ends = {}

\* C10: No degenerate edges: every edge create_edges stored, in the heap or
\* popped from it, has a < b, whatever the number of collapse steps; so
\* the edge popped by a collapse step never has a = b.  (A face with equal
\* vertices at adjacent corners makes create_edges raise, and no heap is
\* built.)
NoDegenerateEdges ==
    /\ \A n \in DOMAIN edge_heap.nodes :
           edge_heap.nodes[n].value.a < edge_heap.nodes[n].value.b
    /\ Len(removed_edgenodes) > 0 => Popped.a # Popped.b
    /\ pc = "AssertionError" => len(edge_heap) = 0

\* Two collapse steps have popped edges of a mesh of two faces and edges
\* are left in the heap; one of them was built from a corner pair given in
\* descending order.
NoDegenerateEdgesWitness ==
    /\ pc = "KeyError"
    /\ Len(removed_edgenodes) >= 2
    /\ len(edge_heap) >= 4
    /\ Len(faces) = 2
    /\ \E n \in ActiveEdges : edge_heap.nodes[n].value = Edge(2, 0, 10)

(***************************************************************************)
(* Properties of the collapse loop                                         *)
(***************************************************************************)

\* The canonical vertex pairs of the corner pairs of face f.
FacePairs(f) ==
    {get_ends(Edge(item(f, p - 1)[1], item(f, p)[1], 0)) : p \in 0 .. (Len(f) - 1)}

\* The initial edges of the mesh: the distinct canonical vertex pairs of
\* its faces.
InitialEdges == UNION {FacePairs(faces[k]) : k \in DOMAIN faces}

\* The collapse steps made so far on a non-empty heap.
Collapses == Len(removed_edgenodes)

\* C11: Termination: on a mesh with E initial edges the collapse loop ends
\* with an empty heap, and after E collapse steps the heap is empty; a
\* step never leaves more nodes in the heap than it found.
Termination ==
    /\ pc \in {"skeletonise", "NameError"} => len(edge_heap) = 0
    /\ (pc \in {"KeyError", "return"} /\ Collapses >= Cardinality(InitialEdges))
           => len(edge_heap) = 0
    /\ pc \in {"KeyError", "return"}
           => len(edge_heap) + Collapses = Len(edge_heap.nodes)

\* C12: Vertices are append-only: a collapse step on a non-empty heap
\* lengthens the vertex list by exactly one and leaves every vertex stored
\* before at its index, and the survivor index it works with (the one key
\* it adds to the adjacency map) is the length the vertex list had before
\* the step; nothing else changes the vertex list.
VerticesAppendOnly ==
    [][IF SkeletoniseStep /\ len(edge_heap) > 0
       THEN /\ Len(vertices') = Len(vertices) + 1
            /\ SubSeq(vertices', 1, Len(vertices)) = vertices
            /\ Len(vertices) \in DOMAIN edge_map'
            /\ DOMAIN edge_map' \ DOMAIN edge_map \subseteq {Len(vertices)}
       ELSE vertices' = vertices
    ]_vars

\* Two collapse steps have appended vertices 4 and 5 to the rectangle's
\* four, and the adjacency map has the second survivor as a key.
VerticesAppendOnlyWitness ==
    /\ pc = "KeyError"
    /\ Collapses = 2
    /\ Len(vertices) = Len(Rectangle) + 2
    /\ SubSeq(vertices, 1, Len(Rectangle)) = Rectangle
    /\ 5 \in DOMAIN edge_map

\* C13: Midpoint policy: the vertex appended by the collapse of edge (a, b)
\* is, in each of the coordinates x, y and z, the mean of vertex a's and
\* vertex b's value in that same coordinate.
MidpointPolicy ==
    pc = "KeyError" =>
        \A c \in 1 .. 3 :
            item(vertices, -1)[c] =
                (item(vertices, Popped.a)[c] + item(vertices, Popped.b)[c]) \div 2

\* C16: Empty heap is the terminal condition, not a failure: a collapse
\* step on an empty heap returns normally and leaves the vertex list, the
\* adjacency map, the heap and the list of removed edges as they were.
EmptyHeapStep ==
    [][(SkeletoniseStep /\ len(edge_heap) = 0) =>
           /\ pc' = "return"
           /\ vertices' = vertices
           /\ edge_map' = edge_map
           /\ removed_edgenodes' = removed_edgenodes
           /\ len(edge_heap') = 0
           /\ edge_heap'.root = None
           /\ edge_heap'.nodes = edge_heap.nodes
           /\ InHeap(edge_heap') = {}
    ]_vars

\* A collapse step has returned from the heap that three steps had
\* emptied of a triangle's edges.
EmptyHeapStepWitness ==
    /\ pc = "return"
    /\ Collapses = 3
    /\ Len(vertices) = Len(Rectangle) + 3
    /\ len(edge_heap) = 0
    /\ edge_heap.err = "IndexError"

\* C17: Zero-collapse round trip: as long as no collapse step has popped an
\* edge, the vertex list and the face list are what the loader returned:
\* create_edges (and a step on an empty heap) changes neither.
ZeroCollapseRoundTrip ==
    [][Collapses' = 0 => (vertices' = vertices /\ faces' = faces)]_vars

\* create_edges has built the seven heap nodes of a mesh of a triangle and
\* the quad, and no collapse step has been made.
ZeroCollapseRoundTripWitness ==
    /\ pc = "create_edges"
    /\ Collapses = 0
    /\ len(edge_heap) = 7
    /\ Len(faces) = 2
    /\ vertices = Rectangle

(***************************************************************************)
(* Properties of the loader                                                *)
(***************************************************************************)

\* The 0-based node of what a token refers to.
ZeroBased(c) == [k \in 1 .. 3 |-> IF c[k] = NoRef THEN NoRef ELSE c[k] - 1]

\* A face line of three or four tokens, each in a recognised format.
Recognised(words) ==
    /\ Len(words) \in {4, 5}
    /\ words[1] = <<"f">>
    /\ \A j \in 2 .. Len(words) : words[j] \in Tokens

\* C18: 0-based conversion: read_model succeeds on a face line whose
\* tokens are of the formats v, v/t, v/t/n and v//n, and stores for each
\* token the node of its references, each one less than written (None for
\* a reference the token does not have).
ZeroBasedConversion ==
    (pc # "main" /\ Len(lines) = 1 /\ Recognised(lines[1])) =>
        /\ pc = "read_model"
        /\ Len(faces) = 1
        /\ Len(faces[1]) = Len(lines[1]) - 1
        /\ \A j \in 1 .. Len(faces[1]) : \A c \in NodeRefs :
               lines[1][j + 1] = token(c) => faces[1][j] = ZeroBased(c)

====
